---- MODULE Spec2Model ----
(***************************************************************************)
(* A model of core.py: the Vector3d / Point3d value types and the PointSet *)
(* container.                                                              *)
(*                                                                         *)
(* Numbers.  A Python float is modelled as a fixed-point integer counting  *)
(* units of 1/Scale, Scale = 10^4, so that a sum of squares counts units   *)
(* of 10^-8 and round(number, 7) is decidable on it.  Every multiplication *)
(* and division rounds its result to the nearest unit, which stands for    *)
(* the rounding a float operation performs; "up to float tolerance" is     *)
(* Tol units.                                                              *)
(*                                                                         *)
(* Objects.  An instance is a record of the attributes __init__ sets.      *)
(* The program's variables hold instances in heap; a PointSet holds the    *)
(* Point3d instances it creates in pointList.  An instance's identity is   *)
(* the place that holds it (Ref).                                          *)
(***************************************************************************)
EXTENDS Integers, Sequences, FiniteSets, TLC

VARIABLES
    heap,       \* the Vector3d / Point3d instances the program holds
    made,       \* whether the PointSet has been constructed
    pointList,  \* PointSet.pointList: the Point3d instances, in order
    pointDict,  \* PointSet.pointDict: the entries <key, value>, in insertion order
    ret         \* the last call: its name, receiver, argument and outcome

vars == <<heap, made, pointList, pointDict, ret>>

---------------------------------------------------------------------------
(* Bounds of the model *)

\* the number of instances the program holds
MaxHeap == 2
\* the length of PointSet.pointList
MaxSeq == 4
\* the largest component (in units) of an instance the program keeps
MaxAbs == 15000
\* the smallest length (in units) of a computed, nonzero vector the program
\* keeps: below it the units are too coarse to hold the vector's direction
MinLen == 50
\* float tolerance, in units
Tol == 12

---------------------------------------------------------------------------
(* Fixed-point numbers *)

\* round(number, 7): the digits kept by isRoughlyZero
NDIGITS == 7

RECURSIVE Pow10(_)
Pow10(k) == IF k = 0 THEN 1 ELSE 10 * Pow10(k - 1)

\* units per 1.0; a square counts units of 10^-(NDIGITS+1)
Scale == Pow10((NDIGITS + 1) \div 2)

Abs(n) == IF n < 0 THEN -n ELSE n

Sgn(n) == IF n < 0 THEN -1 ELSE 1

\* a / b to the nearest integer (b > 0)
RoundDiv(a, b) == Sgn(a) * ((2 * Abs(a) + b) \div (2 * b))

\* float product a * b
FMul(a, b) == RoundDiv(a * b, Scale)

\* float quotient a / b
FDiv(a, b) == Sgn(b) * RoundDiv(a * Scale, Abs(b))

\* Newton's iteration for the integer square root, from x >= isqrt(n)
RECURSIVE SqrtIter(_, _)
SqrtIter(n, x) ==
    LET y == (x + n \div x) \div 2
    IN IF y >= x THEN x ELSE SqrtIter(n, y)

SqrtFloor(n) ==
    IF n = 0 THEN 0 ELSE SqrtIter(n, (Scale + n \div Scale) \div 2 + 1)

\* math.sqrt of a count of square units, in units, to the nearest unit
Sqrt(n) ==
    LET r == SqrtFloor(n)
    IN IF n - r * r > r THEN r + 1 ELSE r

\* round(number, 7) of a count of square units: the nearest multiple of
\* 10^-7, ties to even
Round7(number) ==
    LET per == (Scale * Scale) \div Pow10(NDIGITS)
        q == number \div per
        r == number % per
    IN IF 2 * r < per THEN q
       ELSE IF 2 * r > per THEN q + 1
       ELSE IF q % 2 = 0 THEN q ELSE q + 1

\* a variant that tests for exact zero, without the rounding
isRoughlyZeroExact(number) == number = 0

isRoughlyZero(number) == Round7(number) = 0

---------------------------------------------------------------------------
(* Python values and the outcomes of calls *)

\* a real number, in units
NumV(n) == [t |-> "num", n |-> n]
\* an index, a count or a hash: a plain integer
IntV(i) == [t |-> "int", i |-> i]
BoolV(b) == [t |-> "bool", b |-> b]
ListV(l) == [t |-> "list", l |-> l]
TupV(c) == [t |-> "tuple", c |-> c]
StrV(s) == [t |-> "str", s |-> s]
NoneV == [t |-> "None"]
SliceV(lo, hi) == [t |-> "slice", lo |-> lo, hi |-> hi]
\* an instance, with its identity
ObjV(id, o) == [t |-> "obj", id |-> id, o |-> o]
\* an instance just created: no variable holds it yet
Fresh == [sp |-> "new", i |-> 0]
Ref(sp, i) == [sp |-> sp, i |-> i]

Returns(v) == [kind |-> "return", v |-> v]
Raises(exc) == [kind |-> "raise", exc |-> exc]
NotImplementedV == [t |-> "NotImplemented"]

\* isinstance(v, Vector3d): Point3d is a subclass
IsVec(v) == v.t = "obj"
\* isinstance(v, numbers.Number)
IsNum(v) == v.t = "num"

---------------------------------------------------------------------------
(* Vector3d *)

Vector3d_init(x, y, z) ==
    [cls |-> "Vector3d", coords |-> <<x, y, z>>, x |-> x, y |-> y, z |-> z]

Point3d_init(x, y, z) == [Vector3d_init(x, y, z) EXCEPT !.cls = "Point3d"]

New(cls, c) ==
    IF cls = "Point3d" THEN Point3d_init(c[1], c[2], c[3])
    ELSE Vector3d_init(c[1], c[2], c[3])

\* Vector3d(...) as the value of an expression
NewVector(x, y, z) == Returns(ObjV(Fresh, Vector3d_init(x, y, z)))

Vector3d_iter(self) == self.coords

\* sum(n**2 for n in self), in square units
SumSq(self) ==
    LET c == Vector3d_iter(self)
    IN c[1] * c[1] + c[2] * c[2] + c[3] * c[3]

length(self) == Sqrt(SumSq(self))

\* a variant that zips the axis names with the coordinates reversed
asDictReversed(self) ==
    [k \in {"x", "y", "z"} |->
        self.coords[CASE k = "x" -> 3 [] k = "y" -> 2 [] OTHER -> 1]]

asDict(self) ==
    [k \in {"x", "y", "z"} |->
        self.coords[CASE k = "x" -> 1 [] k = "y" -> 2 [] OTHER -> 3]]

\* tuple.__getitem__ on the three coordinates
TupleGetItem(c, key) ==
    CASE key.t = "int" ->
            IF key.i >= 0 /\ key.i < Len(c) THEN Returns(NumV(c[key.i + 1]))
            ELSE IF key.i < 0 /\ key.i >= -Len(c)
                 THEN Returns(NumV(c[Len(c) + key.i + 1]))
            ELSE Raises("IndexError")
      [] key.t = "slice" -> Returns(TupV(SubSeq(c, key.lo + 1, key.hi)))
      [] OTHER -> Raises("TypeError")

Vector3d_getitem(self, key) ==
    IF key.t = "str" /\ key.s \in {"x", "y", "z"}
    THEN Returns(NumV(asDict(self)[key.s]))
    ELSE TupleGetItem(self.coords, key)

\* self[i] for a valid index i, as a number
At(self, i) == Vector3d_getitem(self, IntV(i)).v.n

toX(self, number) == NewVector(number, At(self, 1), At(self, 2))

toY(self, number) == NewVector(At(self, 0), number, At(self, 2))

toZ(self, number) == NewVector(At(self, 0), At(self, 1), number)

dot(self, other) ==
    LET a == Vector3d_iter(self)
        b == Vector3d_iter(other)
    IN FMul(a[1], b[1]) + FMul(a[2], b[2]) + FMul(a[3], b[3])

cross(self, other) ==
    LET x == FMul(At(self, 1), At(other, 2)) - FMul(At(self, 2), At(other, 1))
        y == FMul(At(self, 2), At(other, 0)) - FMul(At(self, 0), At(other, 2))
        z == FMul(At(self, 0), At(other, 1)) - FMul(At(self, 1), At(other, 0))
    IN NewVector(x, y, z)

Vector3d_mul(self, other) ==
    IF IsNum(other)
    THEN LET c == Vector3d_iter(self)
         IN NewVector(FMul(c[1], other.n), FMul(c[2], other.n), FMul(c[3], other.n))
    ELSE IF IsVec(other) THEN Returns(NumV(dot(self, other.o)))
    ELSE Returns(NoneV)

normalized(self) ==
    IF isRoughlyZero(SumSq(self)) THEN Raises("ZeroDivisionError")
    ELSE Vector3d_mul(self, NumV(FDiv(Scale, length(self))))

toLength(self, number) ==
    LET n == normalized(self)
    IN IF n.kind = "raise" THEN n ELSE Vector3d_mul(n.v.o, number)

\* a variant of the vector branch that keeps the class of the receiver
AddVectorsSameKind(self, other) ==
    LET a == Vector3d_iter(self)
        b == Vector3d_iter(other)
    IN Returns(ObjV(Fresh, New(self.cls, <<a[1] + b[1], a[2] + b[2], a[3] + b[3]>>)))

\* the vector branch of __add__: Vector3d(*(sum(p) for p in zip(self, other)))
AddVectors(self, other) ==
    LET a == Vector3d_iter(self)
        b == Vector3d_iter(other)
    IN NewVector(a[1] + b[1], a[2] + b[2], a[3] + b[3])

\* a variant of the scalar branch that adds the number to each coordinate
AddScalarElementwise(self, number) ==
    LET c == Vector3d_iter(self)
    IN NewVector(c[1] + number.n, c[2] + number.n, c[3] + number.n)

\* the scalar branch of __add__: self.normalized() * other + self
AddScalar(self, number) ==
    LET n == normalized(self)
    IN IF n.kind = "raise" THEN n
       ELSE AddVectors(Vector3d_mul(n.v.o, number).v.o, self)

Vector3d_add(self, other) ==
    IF IsNum(other) THEN AddScalar(self, other)
    ELSE IF IsVec(other) THEN AddVectors(self, other.o)
    ELSE Raises("NotImplementedError")

\* other * -1, for each type of other
TimesMinusOne(other) ==
    CASE IsNum(other) -> Returns(NumV(FMul(other.n, -Scale)))
      [] IsVec(other) -> Vector3d_mul(other.o, NumV(-Scale))
      [] other.t = "tuple" -> Returns(TupV(<< >>))
      [] other.t = "str" -> Returns(StrV(""))
      [] OTHER -> Raises("TypeError")

\* a variant that adds other without negating it
Vector3d_subNoNegate(self, other) == Vector3d_add(self, other)

Vector3d_sub(self, other) ==
    LET neg == TimesMinusOne(other)
    IN IF neg.kind = "raise" THEN neg ELSE Vector3d_add(self, neg.v)

\* hash of a tuple of three numbers: a function of the numbers, in order
TupleHash(c) ==
    LET h(n) == n % 65536
    IN h(h(h(c[1]) * 31 + h(c[2])) * 31 + h(c[3]))

Vector3d_hash(self) == TupleHash(self.coords)

\* tuple.__eq__(c, other)
TupleEq(c, other) ==
    IF other.t = "tuple" THEN BoolV(c = other.c) ELSE NotImplementedV

Vector3d_eq(self, other) == TupleEq(self.coords, other)

\* a.__eq__(b) by the type of a
TypeEq(a, b) ==
    CASE IsVec(a) -> Vector3d_eq(a.o, b)
      [] a.t = "tuple" -> TupleEq(a.c, b)
      [] OTHER -> NotImplementedV

\* a == b: a.__eq__(b), then the reflected b.__eq__(a), then identity
PyEq(a, b) ==
    LET r1 == TypeEq(a, b)
    IN IF r1.t = "bool" THEN r1.b
       ELSE LET r2 == TypeEq(b, a)
            IN IF r2.t = "bool" THEN r2.b
               ELSE IsVec(a) /\ IsVec(b) /\ a.id # Fresh /\ a.id = b.id

\* hash(v) of a hashable value
PyHash(v) == IF IsVec(v) THEN Vector3d_hash(v.o) ELSE TupleHash(v.c)

---------------------------------------------------------------------------
(* Point3d *)

\* (other - self).length
distanceTo(self, other) ==
    LET d == Vector3d_sub(other.o, self)
    IN IF d.kind = "raise" THEN d ELSE Returns(NumV(length(d.v.o)))

vectorTo(self, other) == Vector3d_sub(other.o, self)

---------------------------------------------------------------------------
(* PointSet *)

\* the place in dict d of the entry whose key equals key, 0 when there is
\* none: the entries with the hash of key are probed oldest first, and one
\* matches when its key is the same instance as key or compares equal to it
DictFind(d, key) ==
    LET hits == {k \in DOMAIN d :
                    /\ PyHash(d[k].key) = PyHash(key)
                    /\ \/ (IsVec(key) /\ d[k].key.id = key.id)
                       \/ PyEq(d[k].key, key)}
    IN IF hits = {} THEN 0 ELSE CHOOSE k \in hits : \A j \in hits : k <= j

\* d[key] = val
DictSet(d, key, val) ==
    LET k == DictFind(d, key)
    IN IF k = 0 THEN Append(d, [key |-> key, val |-> val])
       ELSE [d EXCEPT ![k].val = val]

\* d[key]
DictGet(d, key) ==
    LET k == DictFind(d, key)
    IN IF k = 0 THEN Raises("KeyError") ELSE Returns(IntV(d[k].val))

\* the loop of the points setter from the i-th value on (i counts from 1,
\* enumerate from 0); the result is <<pointList, pointDict>>
RECURSIVE SetterLoop(_, _, _, _)
SetterLoop(pl, pd, values, i) ==
    IF i > Len(values) THEN <<pl, pd>>
    ELSE LET val == values[i]
             point == IF IsVec(val)
                      THEN LET c == Vector3d_iter(val.o)
                           IN Point3d_init(c[1], c[2], c[3])
                      ELSE Point3d_init(val.c[1], val.c[2], val.c[3])
             key == ObjV(Ref("set", Len(pl) + 1), point)
         IN SetterLoop(Append(pl, point), DictSet(pd, key, i - 1), values, i + 1)

points_setter(pl, pd, values) == SetterLoop(pl, pd, values, 1)

\* list.__getitem__ on pointList: the instances held, not copies
ListGetItem(pl, key) ==
    LET at(k) == ObjV(Ref("set", k), pl[k])
    IN CASE key.t = "int" ->
                IF key.i >= 0 /\ key.i < Len(pl) THEN Returns(at(key.i + 1))
                ELSE IF key.i < 0 /\ key.i >= -Len(pl)
                     THEN Returns(at(Len(pl) + key.i + 1))
                ELSE Raises("IndexError")
         [] key.t = "slice" ->
                LET hi == IF key.hi < Len(pl) THEN key.hi ELSE Len(pl)
                    n == IF hi > key.lo THEN hi - key.lo ELSE 0
                IN Returns(ListV([k \in 1..n |-> at(key.lo + k)]))
         [] OTHER -> Raises("TypeError")

PointSet_getitem(pl, pd, key) ==
    IF key.t = "tuple" \/ IsVec(key) THEN DictGet(pd, key)
    ELSE ListGetItem(pl, key)

\* the points property: [Point3d(*c) for c in self.pointList]
points_getter(pl) ==
    Returns(ListV([k \in DOMAIN pl |->
        LET c == Vector3d_iter(pl[k])
        IN ObjV(Fresh, Point3d_init(c[1], c[2], c[3]))]))

---------------------------------------------------------------------------
(* The state *)

Call(op, self, arg, out) == [op |-> op, self |-> self, arg |-> arg, out |-> out]

\* the instances the program holds, as values
HeapVals == {ObjV(Ref("heap", i), heap[i]) : i \in DOMAIN heap}

\* the instances the PointSet holds, as values
SetVals == {ObjV(Ref("set", i), pointList[i]) : i \in DOMAIN pointList}

Init ==
    /\ heap = << >>
    /\ made = FALSE
    /\ pointList = << >>
    /\ pointDict = << >>
    /\ ret = Call("start", NoneV, NoneV, Returns(NoneV))

\* a call that creates or changes nothing the program holds
Pure(op, self, arg, out) ==
    /\ ret' = Call(op, self, arg, out)
    /\ UNCHANGED <<heap, made, pointList, pointDict>>

InRange(o) ==
    /\ \A i \in 1..3 : Abs(o.coords[i]) <= MaxAbs
    /\ SumSq(o) = 0 \/ SumSq(o) >= MinLen * MinLen

---------------------------------------------------------------------------
(* The operations *)

\* v = Vector3d(x, y, z) or v = Point3d(x, y, z)
Construct(cls, c) ==
    /\ Len(heap) < MaxHeap
    /\ heap' = Append(heap, New(cls, c))
    /\ ret' = Call("__init__", ObjV(Ref("heap", Len(heap) + 1), New(cls, c)),
                   TupV(c), Returns(NoneV))
    /\ UNCHANGED <<made, pointList, pointDict>>

\* w = <the vector the last call returned>
Store ==
    /\ Len(heap) < MaxHeap
    /\ ret.out.kind = "return"
    /\ IsVec(ret.out.v)
    /\ ret.out.v.id = Fresh
    /\ InRange(ret.out.v.o)
    /\ heap' = Append(heap, ret.out.v.o)
    /\ ret' = Call("store", ObjV(Ref("heap", Len(heap) + 1), ret.out.v.o),
                   NoneV, Returns(NoneV))
    /\ UNCHANGED <<made, pointList, pointDict>>

Length(self) == Pure("length", self, NoneV, Returns(NumV(length(self.o))))

Normalized(self) == Pure("normalized", self, NoneV, normalized(self.o))

ToLength(self, number) == Pure("toLength", self, number, toLength(self.o, number))

ToX(self, number) == Pure("toX", self, number, toX(self.o, number.n))

ToY(self, number) == Pure("toY", self, number, toY(self.o, number.n))

ToZ(self, number) == Pure("toZ", self, number, toZ(self.o, number.n))

GetItem(self, key) == Pure("__getitem__", self, key, Vector3d_getitem(self.o, key))

Iter(self) == Pure("__iter__", self, NoneV, Returns(TupV(Vector3d_iter(self.o))))

Dot(self, other) == Pure("dot", self, other, Returns(NumV(dot(self.o, other.o))))

Cross(self, other) == Pure("cross", self, other, cross(self.o, other.o))

Add(self, other) == Pure("__add__", self, other, Vector3d_add(self.o, other))

Sub(self, other) == Pure("__sub__", self, other, Vector3d_sub(self.o, other))

Mul(self, other) == Pure("__mul__", self, other, Vector3d_mul(self.o, other))

Hash(self) == Pure("__hash__", self, NoneV, Returns(IntV(PyHash(self))))

\* a == b, for a or b a vector
Eq(a, b) == Pure("__eq__", a, b, Returns(BoolV(PyEq(a, b))))

DistanceTo(self, other) ==
    /\ self.o.cls = "Point3d"
    /\ Pure("distanceTo", self, other, distanceTo(self, other))

VectorTo(self, other) ==
    /\ self.o.cls = "Point3d"
    /\ Pure("vectorTo", self, other, vectorTo(self, other))

\* ps = PointSet(points)
PointSetInit(points) ==
    /\ ~made
    /\ Len(points) <= MaxSeq
    /\ LET r == IF Len(points) > 0 THEN points_setter(<< >>, << >>, points)
                ELSE << << >>, << >> >>
       IN /\ pointList' = r[1]
          /\ pointDict' = r[2]
    /\ made' = TRUE
    /\ ret' = Call("PointSet", NoneV, ListV(points), Returns(NoneV))
    /\ UNCHANGED heap

\* ps.points = values
SetPoints(values) ==
    /\ made
    /\ Len(pointList) + Len(values) <= MaxSeq
    /\ LET r == points_setter(pointList, pointDict, values)
       IN /\ pointList' = r[1]
          /\ pointDict' = r[2]
    /\ ret' = Call("points=", NoneV, ListV(values), Returns(NoneV))
    /\ UNCHANGED <<heap, made>>

\* ps[key]
PointSetGetItem(key) ==
    /\ made
    /\ Pure("ps[]", NoneV, key, PointSet_getitem(pointList, pointDict, key))

\* ps.points
Points ==
    /\ made
    /\ Pure("points", NoneV, NoneV, points_getter(pointList))

---------------------------------------------------------------------------
(* The inputs *)

Classes == {"Vector3d", "Point3d"}

\* the sequences of at most n items
Batches(items, n) == UNION {[1..k -> items] : k \in 0..n}

\* the whole library, on one coordinate triple
LibCoords == {<<Scale, 0, 2 * Scale>>}
LibTuples == {TupV(c) : c \in LibCoords \cup {<<0, 0, 0>>}}
LibNumbers == {NumV(Scale)}
\* operands that are neither numbers nor vectors
Others == {TupV(<<Scale, 0, 2 * Scale>>), StrV("a"), NoneV}
VectorKeys ==
    {IntV(0), IntV(2), IntV(-1), IntV(3), StrV("x"), StrV("y"), SliceV(0, 2)}
SetIndexKeys == {IntV(0), IntV(2), IntV(-1), SliceV(0, 2)}

\* the PointSet, on two coordinate triples
SetCoords == {<<0, 0, 0>>, <<Scale, 0, 0>>}
SetTuples == {TupV(c) : c \in SetCoords}

\* the arithmetic: the zero vector; two vectors of a few units, whose sums
\* of squares are 1 and 9 square units (both on one axis: a direction other
\* than an axis has no meaning at a length of a few units); vectors of length
\* 1 and sqrt(3)
NumCoords ==
    {<<0, 0, 0>>, <<0, 0, 1>>, <<0, 0, 3>>,
     <<0, -6000, 8000>>, <<Scale, Scale, -Scale>>}
\* the numbers added and subtracted: -2, -1, 0 and 1
NumNumbers == {NumV(-2 * Scale), NumV(-Scale), NumV(0), NumV(Scale)}
\* the numbers multiplied by: 0 and -2
NumFactors == {NumV(0), NumV(-2 * Scale)}

---------------------------------------------------------------------------
(* The specifications *)

\* the operations of Vector3d and Point3d, and the construction of a PointSet
Next ==
    \/ \E cls \in Classes, c \in LibCoords : Construct(cls, c)
    \/ \E self \in HeapVals : Length(self)
    \/ \E self \in HeapVals : Normalized(self)
    \/ \E self \in HeapVals, n \in LibNumbers : ToLength(self, n)
    \/ \E self \in HeapVals, n \in LibNumbers : ToX(self, n)
    \/ \E self \in HeapVals, n \in LibNumbers : ToY(self, n)
    \/ \E self \in HeapVals, n \in LibNumbers : ToZ(self, n)
    \/ \E self \in HeapVals, key \in VectorKeys : GetItem(self, key)
    \/ \E self \in HeapVals : Iter(self)
    \/ \E self \in HeapVals, other \in HeapVals : Dot(self, other)
    \/ \E self \in HeapVals, other \in HeapVals : Cross(self, other)
    \/ \E self \in HeapVals, other \in LibNumbers \cup HeapVals \cup Others :
            Add(self, other)
    \/ \E self \in HeapVals, other \in LibNumbers \cup HeapVals \cup Others :
            Sub(self, other)
    \/ \E self \in HeapVals, other \in LibNumbers \cup HeapVals \cup Others :
            Mul(self, other)
    \/ \E self \in HeapVals \cup LibTuples : Hash(self)
    \/ \E a \in HeapVals \cup LibTuples, b \in HeapVals \cup LibTuples :
            /\ IsVec(a) \/ IsVec(b)
            /\ Eq(a, b)
    \/ \E self \in HeapVals, other \in HeapVals : DistanceTo(self, other)
    \/ \E self \in HeapVals, other \in HeapVals : VectorTo(self, other)
    \/ \E points \in Batches(HeapVals \cup {TupV(c) : c \in LibCoords}, 2) :
            PointSetInit(points)

Spec == Init /\ [][Next]_vars

\* the PointSet, built from tuples and from instances
NextSet ==
    \/ \E cls \in Classes, c \in SetCoords : Construct(cls, c)
    \/ \E points \in Batches(HeapVals \cup SetTuples, 3) : PointSetInit(points)
    \/ \E values \in Batches(HeapVals \cup SetTuples, 3) : SetPoints(values)
    \/ \E key \in SetIndexKeys \cup SetTuples \cup HeapVals \cup SetVals :
            PointSetGetItem(key)
    \/ Points

SpecSet == Init /\ [][NextSet]_vars

\* the arithmetic of vectors and numbers
NextNum ==
    \/ \E c \in NumCoords : Construct("Vector3d", c)
    \/ Store
    \/ \E self \in HeapVals : Length(self)
    \/ \E self \in HeapVals : Normalized(self)
    \/ \E self \in HeapVals, n \in NumFactors : ToLength(self, n)
    \/ \E self \in HeapVals, other \in NumNumbers \cup HeapVals : Add(self, other)
    \/ \E self \in HeapVals, other \in NumNumbers \cup HeapVals : Sub(self, other)
    \/ \E self \in HeapVals, other \in NumFactors \cup HeapVals : Mul(self, other)

SpecNum == Init /\ [][NextNum]_vars

---------------------------------------------------------------------------
(* Properties *)

\* the coordinate triple of a vector or of a tuple
CoordsOf(v) == IF IsVec(v) THEN v.o.coords ELSE v.c

ReturnsInt(out, i) == out.kind = "return" /\ out.v.t = "int" /\ out.v.i = i

RaisesExc(out, exc) == out.kind = "raise" /\ out.exc = exc

\* a sum of squares that rounds to zero at NDIGITS decimal places: at most
\* half of 10^-NDIGITS
RoundsToZero(o) == 2 * SumSq(o) <= (Scale * Scale) \div Pow10(NDIGITS)

Close(a, b) == Abs(a - b) <= Tol

CloseCoords(c, d) == \A i \in 1..3 : Close(c[i], d[i])

\* the last place (from 0) of coordinates c in a sequence of values
LastIndex(values, c) ==
    CHOOSE i \in 0..(Len(values) - 1) :
        /\ CoordsOf(values[i + 1]) = c
        /\ \A j \in (i + 1)..(Len(values) - 1) : CoordsOf(values[j + 1]) # c

\* C1: two values with the same three components compare equal, whether
\* they are two vector instances or a vector and a tuple, in either order,
\* and the hash of a vector is the hash of its coordinate tuple.
C1_EqualAndSameHash ==
    /\ (ret.op = "__eq__" /\ CoordsOf(ret.self) = CoordsOf(ret.arg))
            => ret.out.v.b = TRUE
    /\ ret.op = "__hash__" => ret.out.v.i = TupleHash(CoordsOf(ret.self))

\* C2: PointSet(points) holds one point per input value, in input order,
\* duplicates included, and the lookup of the coordinates of any input value
\* returns the last index at which the input has these coordinates.
C2_LookupReturnsLastIndex ==
    ret.op = "PointSet" =>
        LET points == ret.arg.l
        IN /\ Len(pointList) = Len(points)
           /\ \A i \in DOMAIN points : pointList[i].coords = CoordsOf(points[i])
           /\ \A i \in DOMAIN points :
                LET c == CoordsOf(points[i])
                IN ReturnsInt(PointSet_getitem(pointList, pointDict, TupV(c)),
                              LastIndex(points, c))

\* C3: after any bulk insertions the mapping holds one entry per distinct
\* coordinate triple of the sequence, and each entry's value is a valid index
\* of the sequence, the index of the last point with the entry's coordinates.
C3_OneEntryPerCoordinate ==
    LET held == [i \in DOMAIN pointList |-> ObjV(Ref("set", i), pointList[i])]
    IN /\ \A i \in DOMAIN pointList :
            \E k \in DOMAIN pointDict :
                CoordsOf(pointDict[k].key) = pointList[i].coords
       /\ \A k, j \in DOMAIN pointDict :
            CoordsOf(pointDict[k].key) = CoordsOf(pointDict[j].key) => k = j
       /\ \A k \in DOMAIN pointDict :
            /\ pointDict[k].val \in 0..(Len(pointList) - 1)
            /\ pointList[pointDict[k].val + 1].coords = CoordsOf(pointDict[k].key)
            /\ pointDict[k].val = LastIndex(held, CoordsOf(pointDict[k].key))

\* C4: ps[key] with an integer returns the point held at that place of the
\* sequence, and with a tuple, a Point3d or a Vector3d whose coordinates the
\* set holds it returns an index, the same for the three kinds of key.
C4_KeyKindsAgree ==
    ret.op = "ps[]" =>
        /\ (ret.arg.t = "int" /\ ret.arg.i \in 0..(Len(pointList) - 1)) =>
                /\ ret.out.kind = "return"
                /\ ret.out.v = ObjV(Ref("set", ret.arg.i + 1), pointList[ret.arg.i + 1])
        /\ ((ret.arg.t = "tuple" \/ IsVec(ret.arg))
                /\ \E i \in DOMAIN pointList : pointList[i].coords = CoordsOf(ret.arg)) =>
                /\ ret.out.kind = "return"
                /\ \A key \in {TupV(CoordsOf(ret.arg))} \cup
                        {v \in HeapVals : CoordsOf(v) = CoordsOf(ret.arg)} :
                      ReturnsInt(PointSet_getitem(pointList, pointDict, key),
                                 ret.out.v.i)

\* C5: +, - and * with a right operand that is neither a number nor a vector
\* end in an error; they return nothing.
C5_OtherOperandRaises ==
    (/\ ret.op \in {"__add__", "__sub__", "__mul__"}
     /\ ~IsNum(ret.arg)
     /\ ~IsVec(ret.arg)) => ret.out.kind = "raise"

\* C6: normalized(), toLength(n), v + n and v - n raise ZeroDivisionError
\* exactly when the sum of the squared components of v rounds to zero at 7
\* decimal places, and return otherwise; vector + vector, vector - vector,
\* vector * number and vector * vector never raise it.
C6_ZeroDivisionIffRoughlyZero ==
    /\ (\/ ret.op \in {"normalized", "toLength"}
        \/ ret.op \in {"__add__", "__sub__"} /\ IsNum(ret.arg)) =>
            IF RoundsToZero(ret.self.o)
            THEN RaisesExc(ret.out, "ZeroDivisionError")
            ELSE ret.out.kind = "return"
    /\ (\/ ret.op \in {"__add__", "__sub__"} /\ IsVec(ret.arg)
        \/ ret.op = "__mul__") => ret.out.kind = "return"

\* a vector of a few units, not the zero vector, minus the number 0
C6_Witness ==
    /\ ret.op = "__sub__"
    /\ IsNum(ret.arg)
    /\ ret.arg.n = 0
    /\ SumSq(ret.self.o) > 0
    /\ RaisesExc(ret.out, "ZeroDivisionError")

\* C7 as stated: the length of v + s is v.length + s, for every number s and
\* every v that can be normalized.
C7_LengthGrowsByScalar ==
    (ret.op = "__add__" /\ IsNum(ret.arg) /\ ~RoundsToZero(ret.self.o)) =>
        /\ ret.out.kind = "return"
        /\ Close(length(ret.out.v.o), length(ret.self.o) + ret.arg.n)

\* C7, amended: the length of v + s is the absolute value of v.length + s.
C7_LengthIsAbsOfSum ==
    (ret.op = "__add__" /\ IsNum(ret.arg) /\ ~RoundsToZero(ret.self.o)) =>
        /\ ret.out.kind = "return"
        /\ Close(length(ret.out.v.o), Abs(length(ret.self.o) + ret.arg.n))

\* v + s for a number s below -v.length
C7_Witness ==
    /\ ret.op = "__add__"
    /\ IsNum(ret.arg)
    /\ ~RoundsToZero(ret.self.o)
    /\ length(ret.self.o) + ret.arg.n < 0
    /\ ret.out.kind = "return"

\* the vectors v the program holds with v + s equal to w, for the number s
SumsTo(w, s) ==
    {v \in HeapVals :
        /\ ~RoundsToZero(v.o)
        /\ LET sum == Vector3d_add(v.o, s)
           IN sum.kind = "return" /\ sum.v.o = w.o}

\* C8 as stated: (v + s) - s returns v, for every number s and every v that
\* can be normalized.
C8_AddThenSubRoundTrip ==
    (ret.op = "__sub__" /\ IsNum(ret.arg)) =>
        \A v \in SumsTo(ret.self, ret.arg) :
            /\ ret.out.kind = "return"
            /\ CloseCoords(ret.out.v.o.coords, v.o.coords)

\* C8, amended: (v + s) - s returns v when s > -v.length and v + s can be
\* normalized.
C8_RoundTripAboveMinusLength ==
    (ret.op = "__sub__" /\ IsNum(ret.arg) /\ ~RoundsToZero(ret.self.o)) =>
        \A v \in SumsTo(ret.self, ret.arg) :
            length(v.o) + ret.arg.n > 0 =>
                /\ ret.out.kind = "return"
                /\ CloseCoords(ret.out.v.o.coords, v.o.coords)

\* (v + s) - s for a negative number s above -v.length
C8_Witness ==
    /\ ret.op = "__sub__"
    /\ IsNum(ret.arg)
    /\ ret.arg.n < 0
    /\ ~RoundsToZero(ret.self.o)
    /\ \E v \in SumsTo(ret.self, ret.arg) : length(v.o) + ret.arg.n > 0
    /\ ret.out.kind = "return"

\* the elementwise sum of two coordinate triples
SumCoords(c, d) == <<c[1] + d[1], c[2] + d[2], c[3] + d[3]>>

\* C9 as stated: u + v is a new instance with the elementwise sums, of the
\* class of the operands.
C9_SumKeepsKind ==
    (ret.op = "__add__" /\ IsVec(ret.arg)) =>
        /\ ret.out.kind = "return"
        /\ IsVec(ret.out.v)
        /\ ret.out.v.id = Fresh
        /\ ret.out.v.o.coords = SumCoords(ret.self.o.coords, ret.arg.o.coords)
        /\ ret.self.o.cls = ret.arg.o.cls => ret.out.v.o.cls = ret.self.o.cls

\* C9, amended: u + v is a new Vector3d with the elementwise sums, whatever
\* the classes of the operands.
C9_SumIsVector3d ==
    (ret.op = "__add__" /\ IsVec(ret.arg)) =>
        /\ ret.out.kind = "return"
        /\ IsVec(ret.out.v)
        /\ ret.out.v.id = Fresh
        /\ ret.out.v.o.coords = SumCoords(ret.self.o.coords, ret.arg.o.coords)
        /\ ret.out.v.o.cls = "Vector3d"

\* the sum of two Point3d instances
C9_Witness ==
    /\ ret.op = "__add__"
    /\ IsVec(ret.arg)
    /\ ret.self.o.cls = "Point3d"
    /\ ret.arg.o.cls = "Point3d"
    /\ ret.self.id # ret.arg.id
    /\ ret.out.kind = "return"

\* the named axes of an instance are the places of its coordinate triple
AxesAgree(o) ==
    /\ <<o.x, o.y, o.z>> = o.coords
    /\ \A k \in 1..3 :
        LET name == <<"x", "y", "z">>[k]
        IN /\ Vector3d_getitem(o, StrV(name)) = Vector3d_getitem(o, IntV(k - 1))
           /\ Vector3d_getitem(o, StrV(name)) = Returns(NumV(o.coords[k]))

\* the calls that yield a vector
VectorOps ==
    {"normalized", "toLength", "toX", "toY", "toZ", "cross", "__add__",
     "__sub__", "__mul__", "vectorTo"}

\* C10: no step changes an instance that exists, every vector a call returns
\* is a new instance, and the named axes of every instance agree with its
\* coordinate triple.
C10_InstancesImmutable ==
    [][/\ \A i \in DOMAIN heap : i \in DOMAIN heap' /\ heap'[i] = heap[i]
       /\ \A i \in DOMAIN pointList :
            i \in DOMAIN pointList' /\ pointList'[i] = pointList[i]
       /\ (ret'.op \in VectorOps /\ ret'.out.kind = "return" /\ IsVec(ret'.out.v)) =>
            ret'.out.v.id = Fresh /\ AxesAgree(ret'.out.v.o)
       /\ \A i \in DOMAIN heap' : AxesAgree(heap'[i])
       /\ \A i \in DOMAIN pointList' : AxesAgree(pointList'[i])]_vars

\* a PointSet built from a vector the program holds, and then a new vector
\* returned by toY
C10_Witness ==
    /\ Len(pointList) > 0
    /\ Len(heap) > 0
    /\ ret.op = "toY"
    /\ ret.out.v.id = Fresh
    /\ ret.out.v.o.coords # ret.self.o.coords

====
